---- MODULE Spec2Model ----
(***************************************************************************)
(* Relationship inference (RelationshipService) and the knowledge-graph    *)
(* build route with its InstantCache, as state machines.                   *)
(*                                                                         *)
(* Data representation                                                     *)
(*   - a paper id, a topic and a relationship type are TLA+ strings;       *)
(*   - an author or venue string is a record [b, up, pad]: b is its        *)
(*     lower-case trimmed content, up says that it holds upper-case        *)
(*     letters, pad that it is wrapped in one leading and one trailing     *)
(*     space, so that toLowerCase and trim act on it and are not the       *)
(*     identity;                                                           *)
(*   - a word of a title or abstract is a record [b, up]: b is its        *)
(*     lower-case content, up says that its first letter is in upper case  *)
(*     (letters after it may be too);                                      *)
(*   - an absent year, citationCount, references or citations is 0 / <<>>; *)
(*   - an IEEE-754 double d is a pair <<n, u>>: d lies u ulps above the    *)
(*     double nearest to n/10.  Doubles compare by (n, u).                 *)
(*     The strength of an edge of the built graph counts n in hundredths;  *)
(*   - a request body is a record [kind, papers, topic]: kind says whether *)
(*     papers is absent, not an array or an array; topic "" is no topic;   *)
(*   - the write to the external Graph Store is the await the handler is   *)
(*     suspended at: it resolves or rejects, and the store is not modelled.*)
(***************************************************************************)
EXTENDS Integers, Sequences, FiniteSets, TLC

VARIABLES
    papers,         \* analyzeRelationships: the argument
    pc,             \* analyzeRelationships: position in the function body
    sampledPapers,  \* analyzeRelationships: const sampledPapers
    relationships,  \* analyzeRelationships: const relationships (accumulated)
    venueKeep,      \* positions of the venue detector's draws with Math.random() > 0.8
    temporalKeep,   \* positions of the temporal detector's draws with Math.random() > 0.7
    result,         \* analyzeRelationships: the returned list
    graphCache,     \* routes/research.ts: the InstantCache of built graphs, in insertion order
    now,            \* Date.now(), in milliseconds
    requests,       \* the build-knowledge-graph requests: body, position in the handler, response
    ticks,          \* the number of clock steps taken
    storeWrite      \* the outcome of the last storeResearchGraph awaited by the handler

vars == <<papers, pc, sampledPapers, relationships, venueKeep, temporalKeep, result>>
routeVars == <<graphCache, now, ticks, requests, storeWrite>>
allVars == <<vars, routeVars>>

-----------------------------------------------------------------------------
(* Sequences *)

Min(a, b) == IF a <= b THEN a ELSE b

\* Array.prototype.slice(0, n)
Slice(s, n) == SubSeq(s, 1, Min(Len(s), n))

\* The sequence [i \in 1..n |-> e] with every element evaluated, once.
Tuple(f) == f \o <<>>

RECURSIVE ConcatRange(_, _, _)
ConcatRange(ss, lo, hi) ==
    IF lo > hi THEN <<>>
    ELSE IF lo = hi THEN ss[lo]
    ELSE LET mid == (lo + hi) \div 2
         IN  ConcatRange(ss, lo, mid) \o ConcatRange(ss, mid + 1, hi)

\* [].push(...a), [].push(...b), ...: the concatenation of a sequence of sequences
ConcatAll(ss) == ConcatRange(ss, 1, Len(ss))

\* Array.prototype.map
Map(s, F(_)) == Tuple([i \in 1..Len(s) |-> F(s[i])])

\* forEach over s, each element pushing the sequence F(element)
FlatMap(s, F(_)) == ConcatAll([i \in 1..Len(s) |-> F(s[i])])

\* The indices of ks in the order of a stable sort, descending by ks
\* (Array.prototype.sort with comparator (a, b) => key(b) - key(a)).
SortDescIdx(keys) ==
    LET ks == Tuple(keys)
        n  == Len(ks)
        rank == Tuple([i \in 1..n |->
                    Cardinality({j \in 1..n : ks[j] > ks[i] \/ (ks[j] = ks[i] /\ j < i)}) + 1])
    IN  Tuple([r \in 1..n |-> CHOOSE i \in 1..n : rank[i] = r])

\* The first k indices of ks in the order of a stable sort, ascending by ks
\* (Array.prototype.sort with comparator (a, b) => key(a) - key(b), read up to k).
SortAscFirst(keys, k) ==
    LET ks == Tuple(keys)
        n  == Len(ks)
        rank(i) == Cardinality({j \in 1..n : ks[j] < ks[i] \/ (ks[j] = ks[i] /\ j < i)}) + 1
    IN  Tuple([r \in 1..k |-> CHOOSE i \in 1..n : rank(i) = r])

-----------------------------------------------------------------------------
(* Strings *)

Str(b, up, pad) == [b |-> b, up |-> up, pad |-> pad]
NoStr == Str("", FALSE, FALSE)

toLowerCase(s) == [s EXCEPT !.up = FALSE]
trim(s) == [s EXCEPT !.pad = FALSE]
\* a string in a condition: the empty string is falsy
Truthy(s) == s.b # "" \/ s.pad

-----------------------------------------------------------------------------
(* Doubles *)

Dbl(n, u) == <<n, u>>
DblLeq(x, y) == x[1] < y[1] \/ (x[1] = y[1] /\ x[2] <= y[2])
DblMin(x, y) == IF DblLeq(x, y) THEN x ELSE y
\* an integer that orders doubles as (n, u) does (|u| <= 1)
DblKey(x) == 4 * x[1] + x[2]

\* The k up to 100 for which the double k * 0.3 is one ulp below the double nearest
\* to 3k/10: 3 * 0.3 = 0.8999999999999999, 6 * 0.3 = 1.7999999999999998, ...
BelowTimesPoint3 ==
    {3, 6, 9, 12, 18, 23, 24, 31, 36, 41, 46, 48, 51, 53, 57, 62, 67, 72, 77, 82, 87,
     92, 96, 97}
\* k * 0.3 in double arithmetic, k <= 100
TimesPoint3(k) == Dbl(3 * k, IF k \in BelowTimesPoint3 THEN -1 ELSE 0)
\* The k up to 100 for which the double k * 0.1 is one ulp above the double nearest
\* to k/10: 3 * 0.1 = 0.30000000000000004, 6 * 0.1 = 0.6000000000000001,
\* 7 * 0.1 = 0.7000000000000001, 12 * 0.1 = 1.2000000000000002, ...
AboveTimesPoint1 ==
    {3, 6, 7, 12, 14, 17, 19, 23, 24, 28, 29, 33, 34, 38, 39, 41, 46, 48, 51, 53, 56,
     58, 61, 63, 66, 68, 71, 73, 76, 78, 82, 87, 92, 96, 97}
\* k * 0.1 in double arithmetic, k <= 100
TimesPoint1(k) == Dbl(k, IF k \in AboveTimesPoint1 THEN 1 ELSE 0)


\* The characters of the ids, topics and numbers used, in UTF-16 code unit order.
Alphabet == " -0123456789_abcdefghijklmnopqrstuvwxyz"
CharAt(s, i) == SubSeq(s, i, i)
CharCode(c) == CHOOSE i \in 1..Len(Alphabet) : CharAt(Alphabet, i) = c

\* a < b as JavaScript compares strings (by code units, a proper prefix first)
StrLess(a, b) ==
    LET n == Min(Len(a), Len(b))
        d == {i \in 1..n : CharAt(a, i) # CharAt(b, i)}
    IN  IF d = {} THEN Len(a) < Len(b)
        ELSE LET i == CHOOSE k \in d : \A m \in d : k <= m
             IN  CharCode(CharAt(a, i)) < CharCode(CharAt(b, i))

\* Array.prototype.sort() without comparator, on a set of distinct strings
SortStrings(S) ==
    Tuple([r \in 1..Cardinality(S) |->
              CHOOSE x \in S : Cardinality({y \in S : StrLess(y, x)}) + 1 = r])

-----------------------------------------------------------------------------
(* RelationshipService: sampling *)

maxComparisons == 50000
maxRelationships == 200

\* Math.floor(Math.min(papers.length, Math.sqrt(maxComparisons)))
sampleSizeOf(ps) ==
    CHOOSE k \in 0..Len(ps) :
        /\ k * k <= maxComparisons
        /\ (k = Len(ps) \/ (k + 1) * (k + 1) > maxComparisons)

\* paper.year || 2024
yearOf(p) == IF p.year # 0 THEN p.year ELSE 2024

\* Math.ceil(sampleSize / yearsArray.length)
papersPerYearOf(sampleSize, nYears) == (sampleSize + nYears - 1) \div nYears

\* yearPapers.sort((a, b) => (b.citationCount || 0) - (a.citationCount || 0)).slice(0, papersPerYear)
yearSampleOf(yearPapers, papersPerYear) ==
    LET idx == SortDescIdx([i \in 1..Len(yearPapers) |-> yearPapers[i].citationCount])
    IN  Slice(Tuple([r \in 1..Len(yearPapers) |-> yearPapers[idx[r]]]), papersPerYear)

\* what stratifiedSample has pushed to sample before its last slice
stratifiedSampleAll(ps, sampleSize) ==
    LET years      == {yearOf(ps[i]) : i \in 1..Len(ps)}
        yearStrs   == SortStrings({ToString(y) : y \in years})
        yearsArray == Tuple([r \in 1..Len(yearStrs) |->
                                CHOOSE y \in years : ToString(y) = yearStrs[r]])
        papersPerYear == papersPerYearOf(sampleSize, Len(yearsArray))
    IN  FlatMap(yearsArray,
                LAMBDA y : yearSampleOf(SelectSeq(ps, LAMBDA p : yearOf(p) = y), papersPerYear))

stratifiedSampleUnsliced(ps, sampleSize) == stratifiedSampleAll(ps, sampleSize)
stratifiedSample(ps, sampleSize) == Slice(stratifiedSampleAll(ps, sampleSize), sampleSize)

-----------------------------------------------------------------------------
(* RelationshipService: indexes.  A Map<string, Paper[]> is read only by  *)
(* get(key) || [], which is the bucket of the key in insertion order.     *)

\* authorIndex.get(key) || []
authorIndexGet(ps, key) ==
    FlatMap(ps, LAMBDA p :
        FlatMap(p.authors, LAMBDA a : IF trim(toLowerCase(a)) = key THEN <<p>> ELSE <<>>))

\* venueIndex.get(key) || []
venueIndexGet(ps, key) ==
    FlatMap(ps, LAMBDA p :
        IF Truthy(p.venue) /\ trim(toLowerCase(p.venue)) = key THEN <<p>> ELSE <<>>)

stopWords ==
    {"the", "a", "an", "and", "or", "but", "in", "on", "at", "to", "for", "of", "with",
     "by", "is", "are", "was", "were", "be", "been", "being", "have", "has", "had", "do",
     "does", "did", "will", "would", "could", "should", "this", "that", "these", "those"}

maxKeywords == 20

\* extractKeywords(paper.title + ' ' + (paper.abstract || '')): the lower-cased words
\* longer than 3 that are no stop words, the first 20 of them
extractKeywords(p) ==
    Slice(SelectSeq(Map(p.title \o p.abstract, LAMBDA w : w.b),
                    LAMBDA b : Len(b) > 3 /\ b \notin stopWords),
          maxKeywords)

\* keywordIndex.get(keyword) || []
keywordIndexGet(ps, keyword) ==
    FlatMap(ps, LAMBDA p :
        FlatMap(extractKeywords(p), LAMBDA k : IF k = keyword THEN <<p>> ELSE <<>>))

-----------------------------------------------------------------------------
(* RelationshipService: detectors *)

Rel(s, t, type, strength) ==
    [sourceId |-> s, targetId |-> t, relationshipType |-> type, strength |-> strength]

\* paper.authors.filter(a => otherPaper.authors.some(oa => oa.toLowerCase() === a.toLowerCase()))
sharedAuthorsOf(paper, otherPaper) ==
    SelectSeq(paper.authors, LAMBDA a :
        \E i \in 1..Len(otherPaper.authors) :
            toLowerCase(otherPaper.authors[i]) = toLowerCase(a))

authorStrengthUncapped(n) == TimesPoint3(n)
\* Math.min(0.9, sharedAuthors.length * 0.3)
authorStrength(n) == DblMin(Dbl(9, 0), TimesPoint3(n))

\* ps: the sampled papers; all: the papers the author index was built from
findAuthorRelationships(ps, all) ==
    FlatMap(ps, LAMBDA paper :
        FlatMap(paper.authors, LAMBDA author :
            FlatMap(authorIndexGet(all, toLowerCase(author)), LAMBDA otherPaper :
                IF paper.id # otherPaper.id /\ Len(sharedAuthorsOf(paper, otherPaper)) > 0
                THEN <<Rel(paper.id, otherPaper.id, "author",
                           authorStrength(Len(sharedAuthorsOf(paper, otherPaper))))>>
                ELSE <<>>)))

\* The pairs for which findVenueRelationships draws Math.random(), in order.
venueCandidates(ps, all) ==
    FlatMap(ps, LAMBDA paper :
        IF Truthy(paper.venue)
        THEN FlatMap(venueIndexGet(all, toLowerCase(paper.venue)), LAMBDA otherPaper :
                IF paper.id # otherPaper.id THEN <<<<paper.id, otherPaper.id>>>> ELSE <<>>)
        ELSE <<>>)

\* keep: the positions of the draws with Math.random() > 0.8
findVenueRelationships(ps, all, keep) ==
    LET c == venueCandidates(ps, all)
    IN  FlatMap([i \in 1..Len(c) |-> i], LAMBDA i :
            IF i \in keep THEN <<Rel(c[i][1], c[i][2], "venue", Dbl(4, 0))>> ELSE <<>>)

\* relatedPapers after the keyword loop: the ids hit, one entry per hit, in order
contentHits(paper, all) ==
    FlatMap(extractKeywords(paper), LAMBDA keyword :
        FlatMap(keywordIndexGet(all, keyword), LAMBDA otherPaper :
            IF paper.id # otherPaper.id THEN <<otherPaper.id>> ELSE <<>>))

\* the keys of a Map in insertion order: the first occurrences in hits
firstOccurrences(hits) ==
    FlatMap([i \in 1..Len(hits) |-> i], LAMBDA i :
        IF \E j \in 1..(i - 1) : hits[j] = hits[i] THEN <<>> ELSE <<hits[i]>>)

countOf(hits, id) == Cardinality({i \in 1..Len(hits) : hits[i] = id})

minOverlap == 3

\* Math.min(0.8, overlapCount * 0.1)
contentStrength(n) == DblMin(Dbl(8, 0), TimesPoint1(n))

findContentRelationships(ps, all) ==
    FlatMap(ps, LAMBDA paper :
        LET hits == contentHits(paper, all)
        IN  FlatMap(firstOccurrences(hits), LAMBDA otherId :
                IF /\ countOf(hits, otherId) >= minOverlap
                   /\ \E i \in 1..Len(ps) : ps[i].id = otherId
                THEN <<Rel(paper.id, otherId, "content", contentStrength(countOf(hits, otherId)))>>
                ELSE <<>>))

maxTemporalPerPaper == 3

\* The pairs for which findTemporalRelationships draws Math.random(), in order.
temporalCandidates(ps) ==
    FlatMap([i \in 1..Len(ps) |-> i], LAMBDA index :
        IF ps[index].year # 0 /\ index < Len(ps)
        THEN Map(Slice(SelectSeq(SubSeq(ps, index + 1, Len(ps)), LAMBDA otherPaper :
                           /\ otherPaper.year # 0
                           /\ otherPaper.year - ps[index].year <= 1
                           /\ ps[index].year - otherPaper.year <= 1),
                       maxTemporalPerPaper),
                 LAMBDA otherPaper : <<ps[index].id, otherPaper.id>>)
        ELSE <<>>)

\* keep: the positions of the draws with Math.random() > 0.7
findTemporalRelationships(ps, keep) ==
    LET c == temporalCandidates(ps)
    IN  FlatMap([i \in 1..Len(c) |-> i], LAMBDA i :
            IF i \in keep THEN <<Rel(c[i][1], c[i][2], "temporal", Dbl(3, 0))>> ELSE <<>>)

paperIdMapHasAny(ps, id) == TRUE
\* paperIdMap.has(id)
paperIdMapHas(ps, id) == \E i \in 1..Len(ps) : ps[i].id = id

findCitationRelationships(ps) ==
    FlatMap(ps, LAMBDA paper :
        FlatMap(paper.references, LAMBDA refId :
            IF paperIdMapHas(ps, refId)
            THEN <<Rel(paper.id, refId, "citation", Dbl(9, 0))>> ELSE <<>>)
        \o
        FlatMap(paper.citations, LAMBDA citId :
            IF paperIdMapHas(ps, citId)
            THEN <<Rel(citId, paper.id, "citation", Dbl(9, 0))>> ELSE <<>>))

-----------------------------------------------------------------------------
(* RelationshipService: deduplication and ranking *)

key1(rel) == rel.sourceId \o "-" \o rel.targetId \o "-" \o rel.relationshipType
key2Unswapped(rel) == key1(rel)
key2(rel) == rel.targetId \o "-" \o rel.sourceId \o "-" \o rel.relationshipType

\* The loop of deduplicateRelationships over rels[lo..hi], entered with the set seen:
\* the edges it pushes to unique.
RECURSIVE dedupRange(_, _, _, _)
dedupRange(rels, lo, hi, seen) ==
    IF lo > hi THEN <<>>
    ELSE IF lo = hi
    THEN IF key1(rels[lo]) \notin seen /\ key2(rels[lo]) \notin seen
         THEN <<rels[lo]>> ELSE <<>>
    ELSE LET mid  == (lo + hi) \div 2
             left == dedupRange(rels, lo, mid, seen)
         IN  left \o dedupRange(rels, mid + 1, hi,
                                seen \cup {key1(left[i]) : i \in 1..Len(left)})

deduplicateRelationships(rels) == dedupRange(rels, 1, Len(rels), {})

typeWeightVenueFirst(type) ==
    CASE type = "citation" -> 5
      [] type = "author"   -> 4
      [] type = "content"  -> 3
      [] type = "venue"    -> 20
      [] type = "temporal" -> 1
      [] OTHER             -> 0

\* Every type with the same weight
typeWeightFlat(type) == 1

typeWeight(type) ==
    CASE type = "citation" -> 5
      [] type = "author"   -> 4
      [] type = "content"  -> 3
      [] type = "venue"    -> 2
      [] type = "temporal" -> 1
      [] OTHER             -> 0

\* typeWeight[type] * strength in double arithmetic, for the strengths the detectors
\* give: 4 * 0.8999999999999999 = 3.5999999999999996, 3 * 0.30000000000000004 =
\* 0.9000000000000001, 3 * 0.4 = 1.2000000000000002, 3 * 0.6000000000000001 =
\* 1.8000000000000003, 3 * 0.7000000000000001 = 2.1, 3 * 0.8 = 2.4000000000000004,
\* 3 * 0.3 = 0.8999999999999999, 3 * 0.6 = 1.7999999999999998; the other products
\* keep the offset of the strength.
scoreOf(rel) ==
    LET w == typeWeight(rel.relationshipType)
        s == rel.strength
    IN  Dbl(w * s[1],
            IF w = 3 /\ s \in {<<3, 0>>, <<6, 0>>} THEN -1
            ELSE IF w = 3 /\ s[1] \in {3, 4, 6, 8} THEN 1
            ELSE IF w = 3 /\ s[1] = 7 THEN 0
            ELSE IF w = 0 THEN 0
            ELSE s[2])

\* The relationships left in candidate order
rankRelationshipsUnsorted(rels) == rels

rankRelationships(rels) ==
    LET idx == SortDescIdx([i \in 1..Len(rels) |-> DblKey(scoreOf(rels[i]))])
    IN  Tuple([r \in 1..Len(rels) |-> rels[idx[r]]])

-----------------------------------------------------------------------------
(* RelationshipService.analyzeRelationships *)

\* the candidates pushed to relationships, in the order of the five detector calls
allCandidates(ps, sampled, vKeep, tKeep) ==
       findAuthorRelationships(sampled, ps)
    \o findVenueRelationships(sampled, ps, vKeep)
    \o findContentRelationships(sampled, ps)
    \o findTemporalRelationships(sampled, tKeep)
    \o findCitationRelationships(sampled)

topRelationshipsUnsliced(rels) == rankRelationships(deduplicateRelationships(rels))
\* rankedRelationships.slice(0, 200) of the deduplicated candidates
topRelationships(rels) ==
    Slice(rankRelationships(deduplicateRelationships(rels)), maxRelationships)

analyzeRelationships(ps, vKeep, tKeep) ==
    topRelationships(allCandidates(ps, stratifiedSample(ps, sampleSizeOf(ps)), vKeep, tKeep))

-----------------------------------------------------------------------------
(* Inputs *)

MaxPapers == 3
MaxFullDraws == 3
BigN == 225
DenseN == 21

W(b) == [b |-> b, up |-> FALSE]
Wup(b) == [b |-> b, up |-> TRUE]

Paper(id, authors, year, venue, citationCount, references, citations, title, abstract) ==
    [id |-> id, authors |-> authors, year |-> year, venue |-> venue,
     citationCount |-> citationCount, references |-> references, citations |-> citations,
     title |-> title, abstract |-> abstract]

smith == Str("smith", FALSE, FALSE)
jones == Str("jones", FALSE, FALSE)
lee   == Str("lee", FALSE, FALSE)
kim   == Str("kim", FALSE, FALSE)
nips  == Str("nips", FALSE, FALSE)
icml  == Str("icml", FALSE, FALSE)

Catalogue ==
    << Paper("p101", <<Str("smith", TRUE, FALSE)>>, 2020, Str("nips", TRUE, FALSE), 10,
             <<"p102">>, <<>>,
             <<Wup("deep"), W("learning"), W("graph"), W("neural")>>, <<>>),
       Paper("p102", <<smith>>, 2021, nips, 5,
             <<"p101">>, <<>>,
             <<W("deep"), Wup("learning"), W("for"), W("graph"), W("data")>>, <<>>),
       Paper("p103", <<Str("smith", TRUE, TRUE)>>, 0, NoStr, 0,
             <<>>, <<"p101", "p102">>,
             <<W("the"), W("gpu")>>, <<>>),
       Paper("p104", <<Str("smith", FALSE, TRUE)>>, 2023, Str("nips", FALSE, TRUE), 7,
             <<"p104", "p999">>, <<>>,
             <<W("deep"), W("deep"), W("deep")>>, <<>>),
       Paper("p105", <<smith, jones, Str("smith", TRUE, FALSE)>>, 2021, NoStr, 5,
             <<>>, <<>>,
             <<W("deep")>>, <<W("with"), W("those")>>),
       Paper("p106", <<smith, jones, lee, kim>>, 2020, icml, 10,
             <<"p107">>, <<"p105">>,
             <<W("graph"), W("neural"), W("network"), W("models")>>,
             <<W("deep"), W("learning"), W("methods")>>),
       Paper("p107", <<kim, lee, jones, smith>>, 2022, icml, 10,
             <<>>, <<"p106">>,
             <<Wup("graph"), W("neural"), W("network"), W("models")>>,
             <<W("with"), W("deep"), W("learning"), W("methods"), W("graph"), W("neural")>>),
       Paper("p108", <<Str("park", FALSE, FALSE)>>, 0, NoStr, 0,
             <<>>, <<>>,
             <<W("deep")>>, <<>>) >>

\* the sequences of at most n distinct elements of 1..m
RECURSIVE Arrangements(_, _)
Arrangements(m, n) ==
    IF n = 0 THEN {<<>>}
    ELSE LET shorter == Arrangements(m, n - 1)
         IN  shorter \cup {Append(a, i) : a \in {x \in shorter : Len(x) = n - 1},
                                          i \in 1..m}

SmallInputs ==
    {Tuple([i \in 1..Len(a) |-> Catalogue[a[i]]]) :
        a \in {x \in Arrangements(Len(Catalogue), MaxPapers) :
                  \A i, j \in 1..Len(x) : i # j => x[i] # x[j]}}

\* n papers without authors, venue or text, the first k of them of year 2019 and
\* the others without a year
BigInput(n, k) ==
    Tuple([i \in 1..n |->
        Paper("q" \o ToString(i), <<>>, IF i <= k THEN 2019 ELSE 0, NoStr, i % 7,
              <<>>, <<>>, <<>>, <<>>)])

\* n papers of one author and one venue, each citing the r papers after it (cyclically)
DenseInput(n, r) ==
    Tuple([i \in 1..n |->
        Paper("d" \o ToString(i), <<smith>>, 2000 + (i % 2), nips, 0,
              Tuple([k \in 1..r |-> "d" \o ToString(((i + k - 1) % n) + 1)]),
              <<>>, <<>>, <<>>)])

\* n papers of one year without venue or text, the first and the last of them by the
\* same author, the last one the least cited
AuthoredInput(n) ==
    Tuple([i \in 1..n |->
        Paper("q" \o ToString(i), IF i \in {1, n} THEN <<smith>> ELSE <<>>, 0, NoStr,
              IF i = n THEN 0 ELSE 1 + (i % 7), <<>>, <<>>, <<>>, <<>>)])

\* n papers without authors, venue or text, two for each year from 1901 on (one for
\* the last year if n is odd)
YearsInput(n) ==
    Tuple([i \in 1..n |->
        Paper("y" \o ToString(i), <<>>, 1900 + ((i + 1) \div 2), NoStr, 0,
              <<>>, <<>>, <<>>, <<>>)])

\* Four papers of one author whose ids hold the separator of the deduplication keys
HyphenInput ==
    << Paper("a-b", <<smith>>, 0, NoStr, 0, <<>>, <<>>, <<>>, <<>>),
       Paper("c", <<smith>>, 0, NoStr, 0, <<>>, <<>>, <<>>, <<>>),
       Paper("a", <<smith>>, 0, NoStr, 0, <<>>, <<>>, <<>>, <<>>),
       Paper("b-c", <<smith>>, 0, NoStr, 0, <<>>, <<>>, <<>>, <<>>) >>

\* Four papers whose ids hold the separator of the deduplication keys, the first and
\* the third with a reference to the paper after them
HyphenCitingInput ==
    << Paper("a-b", <<>>, 0, NoStr, 0, <<"c">>, <<>>, <<>>, <<>>),
       Paper("c", <<>>, 0, NoStr, 0, <<>>, <<>>, <<>>, <<>>),
       Paper("a", <<>>, 0, NoStr, 0, <<"b-c">>, <<>>, <<>>, <<>>),
       Paper("b-c", <<>>, 0, NoStr, 0, <<>>, <<>>, <<>>, <<>>) >>

Inputs ==
    SmallInputs
      \cup {BigInput(BigN, k) : k \in {0, 1, BigN \div 2 + 1}}
      \cup {DenseInput(DenseN, r) : r \in {5, DenseN - 1}}

\* The outcomes of n draws of Math.random(), as the set of the positions that pass
\* the test: every outcome for few draws, three patterns for many.
DrawChoices(n) ==
    IF n <= MaxFullDraws THEN SUBSET (1..n)
    ELSE {{}, 1..n, {i \in 1..n : i % 2 = 1}}

-----------------------------------------------------------------------------
(* routes/research.ts: InstantCache *)

\* The cache is the Map in insertion order: a sequence of entries
\* [key, data, timestamp, ttl] with distinct keys.
maxSize == 10000
graphTtlMinutes == 60

CacheItem(key, data, timestamp, ttl) ==
    [key |-> key, data |-> data, timestamp |-> timestamp, ttl |-> ttl]

cacheHas(cache, key) == \E i \in 1..Len(cache) : cache[i].key = key
cacheItem(cache, key) == cache[CHOOSE i \in 1..Len(cache) : cache[i].key = key]
cacheDelete(cache, key) == SelectSeq(cache, LAMBDA item : item.key # key)

\* An item kept for twice its ttl
expiredAfterTwice(item, t) == t - item.timestamp > 2 * item.ttl

\* Date.now() - item.timestamp > item.ttl
expired(item, t) == t - item.timestamp > item.ttl

\* The second loop of cleanup re-reads this.cache.size at every iteration,
\* so it stops as soon as i reaches the remaining excess.
evictCount(size) ==
    IF size > maxSize THEN (size - maxSize + 1) \div 2 ELSE 0

\* InstantCache.cleanup
cleanup(cache, t) ==
    LET live == SelectSeq(cache, LAMBDA item : ~expired(item, t))
        order == SortAscFirst([i \in 1..Len(live) |-> live[i].timestamp],
                              evictCount(Len(live)))
        gone == {order[i] : i \in 1..evictCount(Len(live))}
    IN  ConcatAll([i \in 1..Len(live) |-> IF i \in gone THEN <<>> ELSE <<live[i]>>])

\* Map.prototype.set: an existing key keeps its position
mapSet(cache, item) ==
    IF cacheHas(cache, item.key)
    THEN Tuple([i \in 1..Len(cache) |-> IF cache[i].key = item.key THEN item ELSE cache[i]])
    ELSE Append(cache, item)

\* InstantCache.set
cacheSet(cache, key, data, ttlMinutes, t) ==
    mapSet(IF Len(cache) >= maxSize THEN cleanup(cache, t) ELSE cache,
           CacheItem(key, data, t, ttlMinutes * 60 * 1000))

\* InstantCache.get: whether it returns an item, and the cache it leaves
cacheGetHits(cache, key, t) == cacheHas(cache, key) /\ ~expired(cacheItem(cache, key), t)
cacheAfterGet(cache, key, t) ==
    IF cacheHas(cache, key) /\ expired(cacheItem(cache, key), t)
    THEN cacheDelete(cache, key)
    ELSE cache

-----------------------------------------------------------------------------
(* routes/research.ts: build-knowledge-graph, the handler's computations *)

maxGraphPapers == 500
maxKeyLength == 100
maxAbstractLength == 300
defaultTopic == "research_graph_topic"

\* Array.prototype.sort() without comparator, on a sequence of strings
SortStringSeq(s) ==
    LET n == Len(s)
        rank == Tuple([i \in 1..n |->
                    Cardinality({j \in 1..n : StrLess(s[j], s[i]) \/ (s[j] = s[i] /\ j < i)}) + 1])
    IN  Tuple([r \in 1..n |-> s[CHOOSE i \in 1..n : rank[i] = r]])

\* Array.prototype.join
RECURSIVE Join(_, _)
Join(s, sep) ==
    IF s = <<>> THEN ""
    ELSE IF Len(s) = 1 THEN s[1]
    ELSE s[1] \o sep \o Join(Tail(s), sep)

\* topic || 'research_graph_topic'
currentTopicOf(topic) == IF topic # "" THEN topic ELSE defaultTopic

\* `graph_${currentTopic}_${papers.map(p => p.id).sort().join('_')}`.slice(0, 100)
cacheKeyOf(topic, ps) ==
    LET ids == SortStringSeq(Tuple([i \in 1..Len(ps) |-> ps[i].id]))
        full == "graph_" \o currentTopicOf(topic) \o "_" \o Join(ids, "_")
    IN  SubSeq(full, 1, Min(Len(full), maxKeyLength))

\* optimizePapersForFrontend: the fields the papers of the model carry
untitled == <<Wup("untitled"), Wup("paper")>>
noAbstract == <<Wup("no"), W("abstract"), W("available")>>
unknownVenue == Str("unknown venue", TRUE, FALSE)
\* paper.abstract.length: the words of an abstract are joined by single spaces
RECURSIVE abstractLength(_)
abstractLength(ws) ==
    IF ws = <<>> THEN 0
    ELSE IF Len(ws) = 1 THEN Len(ws[1].b)
    ELSE Len(ws[1].b) + 1 + abstractLength(Tail(ws))
\* paper.abstract.substring(0, n) + '...' as words, for an abstract longer than n: the
\* cut falls inside or at the end of a word, which then carries the dots, or after a
\* space, and the dots are a word of their own.  The part kept of the cut word holds
\* upper case when the word does and its first letter lies before the cut.
letters ==
    {"a", "b", "c", "d", "e", "f", "g", "h", "i", "j", "k", "l", "m",
     "n", "o", "p", "q", "r", "s", "t", "u", "v", "w", "x", "y", "z"}
holdsLetter(b) == \E k \in 1..Len(b) : SubSeq(b, k, k) \in letters
RECURSIVE substringWithDots(_, _)
substringWithDots(ws, n) ==
    IF n = 0 THEN <<W("...")>>
    ELSE IF Len(ws[1].b) >= n
    THEN LET kept == SubSeq(ws[1].b, 1, n)
         IN  <<[b |-> kept \o "...", up |-> ws[1].up /\ holdsLetter(kept)]>>
    ELSE <<ws[1]>> \o substringWithDots(Tail(ws), n - Len(ws[1].b) - 1)
\* t: Date.now() at the call
optimizePapersForFrontend(ps, t) ==
    Tuple([i \in 1..Len(ps) |->
        [id |-> IF ps[i].id # "" THEN ps[i].id
                ELSE "paper-" \o ToString(t) \o "-" \o ToString(i - 1),
         title |-> IF ps[i].title # <<>> THEN ps[i].title ELSE untitled,
         authors |-> Slice(ps[i].authors, 3),
         year |-> ps[i].year,
         citationCount |-> ps[i].citationCount,
         abstract |-> IF ps[i].abstract = <<>> THEN noAbstract
                      ELSE IF abstractLength(ps[i].abstract) > maxAbstractLength
                      THEN substringWithDots(ps[i].abstract, maxAbstractLength)
                      ELSE ps[i].abstract,
         venue |-> IF Truthy(ps[i].venue) THEN ps[i].venue ELSE unknownVenue]])

\* the characters of a lower-cased author string
charsOf(s) == IF s.pad THEN " " \o s.b \o " " ELSE s.b
isSubstring(x, y) ==
    \E k \in 1..(Len(y) + 1) : k + Len(x) - 1 <= Len(y) /\ SubSeq(y, k, k + Len(x) - 1) = x
\* a.toLowerCase().includes(b.toLowerCase())
includesLower(a, b) == isSubstring(charsOf(b), charsOf(a))

\* A strength of a graph edge is a double <<n, u>> with n in hundredths.
Hundredths(x) == <<10 * x[1], x[2]>>
\* Math.min(0.7, commonWords.length * 0.15): 3 * 0.15 = 0.44999999999999996
titleStrength(k) ==
    IF k >= 5 THEN <<70, 0>> ELSE <<15 * k, IF k = 3 THEN -1 ELSE 0>>

Connection(source, target, type, strength) ==
    [source |-> source, target |-> target, type |-> type, strength |-> strength]

\* (paper.title || '').toLowerCase().split(' ').filter(w => w.length > 3)
titleWords(p) ==
    SelectSeq(Tuple([i \in 1..Len(p.title) |-> p.title[i].b]), LAMBDA w : Len(w) > 3)

abs(x) == IF x < 0 THEN 0 - x ELSE x

\* The body of the inner loop of generateGraphConnections for papers[i], papers[j]
\* (1-based; the ids the code makes up count from 0): the connections it pushes.
\* lucky holds the pairs whose
\* Math.random() < 0.01.
connectionOf(ps, i, j, connectionsForThisPaper, lucky) ==
    LET paper1 == ps[i]
        paper2 == ps[j]
        sharedAuthors == SelectSeq(paper1.authors, LAMBDA author :
            \E k \in 1..Len(paper2.authors) :
                \/ includesLower(author, paper2.authors[k])
                \/ includesLower(paper2.authors[k], author))
        p1Id == IF paper1.id # "" THEN paper1.id ELSE "paper-gen-" \o ToString(i - 1)
        p2Id == IF paper2.id # "" THEN paper2.id ELSE "paper-gen-" \o ToString(j - 1)
        title2Words == titleWords(paper2)
        commonWords == SelectSeq(titleWords(paper1), LAMBDA word :
            \E k \in 1..Len(title2Words) : title2Words[k] = word)
    IN  IF Len(sharedAuthors) > 0
        THEN <<Connection(p1Id, p2Id, "shared_author", <<80, 0>>)>>
        ELSE IF paper1.year # 0 /\ paper2.year # 0 /\ abs(paper1.year - paper2.year) <= 1
        THEN <<Connection(p1Id, p2Id, "temporal_proximity", <<40, 0>>)>>
        ELSE IF Len(commonWords) >= 2
        THEN <<Connection(p1Id, p2Id, "title_overlap", titleStrength(Len(commonWords)))>>
        ELSE IF connectionsForThisPaper = 0 /\ <<i, j>> \in lucky /\ 2 * (j - i) > Len(ps)
        THEN <<Connection(p1Id, p2Id, "random_link", <<10, 0>>)>>
        ELSE <<>>

\* The two loops of generateGraphConnections, from papers[i], papers[j] on
RECURSIVE connectionsFrom(_, _, _, _, _, _)
connectionsFrom(ps, i, j, connections, connectionsForThisPaper, lucky) ==
    LET n == Len(ps)
        maxConnections == Min(1000, n * 2)
        maxConnectionsPerPaper == Min(5, n - 1)
    IN  IF i > n \/ Len(connections) >= maxConnections THEN connections
        ELSE IF j > n \/ connectionsForThisPaper >= maxConnectionsPerPaper
        THEN connectionsFrom(ps, i + 1, i + 2, connections, 0, lucky)
        ELSE LET c == connectionOf(ps, i, j, connectionsForThisPaper, lucky)
             IN  connectionsFrom(ps, i, j + 1, connections \o c,
                                 connectionsForThisPaper + Len(c), lucky)

generateGraphConnections(ps, lucky) == connectionsFrom(ps, 1, 2, <<>>, 0, lucky)

\* the pairs for which generateGraphConnections can reach its Math.random()
luckyPairs(ps) ==
    {<<i, j>> \in (1..Len(ps)) \X (1..Len(ps)) : i < j /\ 2 * (j - i) > Len(ps)}

\* relationships.map(rel => ({source, target, type, strength}))
serviceConnections(rels) ==
    Tuple([i \in 1..Len(rels) |->
        Connection(rels[i].sourceId, rels[i].targetId,
                   IF rels[i].relationshipType # "" THEN rels[i].relationshipType ELSE "semantic",
                   IF rels[i].strength[1] # 0 THEN Hundredths(rels[i].strength) ELSE <<50, 0>>)])

\* responseData.data (lines 1055-1064)
GraphData(topic, rels, ps, provided, connections, t) ==
    [topic |-> topic,
     relationshipsFromService |-> rels,
     graphNodes |-> optimizePapersForFrontend(ps, t),
     graphEdges |-> connections,
     totalPapersProvided |-> provided,
     databaseStored |-> TRUE,
     papersInGraph |-> Len(ps),
     cached |-> FALSE]

NoData == GraphData("", <<>>, <<>>, 0, <<>>, 0)

\* what the handler computes after the Graph Store write settled (lines 1047-1065),
\* t: Date.now() then
responseDataOf(body, rels, lucky, t) ==
    LET limitedPapers == Slice(body.papers, maxGraphPapers)
    IN  GraphData(currentTopicOf(body.topic), rels, limitedPapers, Len(body.papers),
                  serviceConnections(rels) \o generateGraphConnections(limitedPapers, lucky),
                  t)

\* The stored response returned as it is
cachedResponseUnmarked(data) == data

\* {...cachedGraph, data: {...cachedGraph.data, cached: true}}
cachedResponseOf(data) == [data EXCEPT !.cached = TRUE]

-----------------------------------------------------------------------------
(* routes/research.ts: build-knowledge-graph as a state machine *)

MaxRequests == 3
MaxTicks == 1

Body(kind, ps, topic) == [kind |-> kind, papers |-> ps, topic |-> topic]
NoBody == Body("absent", <<>>, "")

longTopic ==
    "a survey of deep learning methods for graph neural networks and their applications in the sciences"

\* The request bodies: papers absent, not an array or empty; the same papers in two
\* orders, without topic; a topic so long that the key is cut before the paper ids;
\* papers whose first record has no authors field.
RouteBodies ==
    { Body("absent", <<>>, ""),
      Body("notArray", <<>>, ""),
      Body("array", <<>>, ""),
      Body("array", <<Catalogue[1], Catalogue[5]>>, ""),
      Body("noAuthors", <<Catalogue[1], Catalogue[5]>>, ""),
      Body("array", <<Catalogue[5], Catalogue[1]>>, ""),
      Body("array", <<Catalogue[1], Catalogue[5]>>, longTopic),
      Body("array", <<Catalogue[8], Catalogue[3], Catalogue[4]>>, longTopic) }

\* ttlMinutes * 60 * 1000 of the graphs
graphTtl == graphTtlMinutes * 60 * 1000
\* the steps of Date.now() between two events: the TTL of a graph, a millisecond more
TickSteps == {graphTtl, graphTtl + 1}

\* !papers || !Array.isArray(papers) || papers.length === 0
invalidBody(body) == body.kind \in {"absent", "notArray"} \/ Len(body.papers) = 0

\* buildAuthorIndex: paper.authors.forEach on a record without authors throws
analysisThrows(body) == body.kind = "noAuthors"

\* A request: its position in the handler, its body, the handler's cacheKey and
\* relationships, its response, and for the claims the requests that had been
\* answered, at most a graph TTL earlier, when it arrived, and the cache it found.
Request(st, body, key, rels, after, cacheSeen, status, data, respondedAt) ==
    [st |-> st, body |-> body, key |-> key, rels |-> rels, after |-> after,
     cacheSeen |-> cacheSeen, status |-> status, data |-> data,
     respondedAt |-> respondedAt]

RouteInit ==
    /\ graphCache = <<>>
    /\ now = 0
    /\ ticks = 0
    /\ requests = [r \in 1..MaxRequests |-> Request("idle", NoBody, "", <<>>, {}, <<>>, 0, NoData, 0)]
    /\ storeWrite = "none"

\* The outcomes of the draws of Math.random() at the pairs of S, as the set of the
\* pairs that pass the test: every outcome for few pairs, none or all for many.
DrawSubsets(S) ==
    IF Cardinality(S) <= MaxFullDraws THEN SUBSET S ELSE {{}, S}

-----------------------------------------------------------------------------
(* analyzeRelationships as a state machine: one step per statement group *)

Init ==
    /\ papers \in Inputs
    /\ pc = "sample"
    /\ sampledPapers = <<>>
    /\ relationships = <<>>
    /\ venueKeep = {}
    /\ temporalKeep = {}
    /\ result = <<>>
    /\ RouteInit

\* lines 41-42
Sample ==
    /\ pc = "sample"
    /\ sampledPapers' = stratifiedSample(papers, sampleSizeOf(papers))
    /\ pc' = "author"
    /\ UNCHANGED <<papers, relationships, venueKeep, temporalKeep, result>>
    /\ UNCHANGED routeVars

\* line 47
Author ==
    /\ pc = "author"
    /\ relationships' = relationships \o findAuthorRelationships(sampledPapers, papers)
    /\ pc' = "venue"
    /\ UNCHANGED <<papers, sampledPapers, venueKeep, temporalKeep, result>>
    /\ UNCHANGED routeVars

\* line 48
Venue ==
    /\ pc = "venue"
    /\ \E keep \in DrawChoices(Len(venueCandidates(sampledPapers, papers))) :
          /\ venueKeep' = keep
          /\ relationships' = relationships \o findVenueRelationships(sampledPapers, papers, keep)
    /\ pc' = "content"
    /\ UNCHANGED <<papers, sampledPapers, temporalKeep, result>>
    /\ UNCHANGED routeVars

\* line 49
Content ==
    /\ pc = "content"
    /\ relationships' = relationships \o findContentRelationships(sampledPapers, papers)
    /\ pc' = "temporal"
    /\ UNCHANGED <<papers, sampledPapers, venueKeep, temporalKeep, result>>
    /\ UNCHANGED routeVars

\* line 50
Temporal ==
    /\ pc = "temporal"
    /\ \E keep \in DrawChoices(Len(temporalCandidates(sampledPapers))) :
          /\ temporalKeep' = keep
          /\ relationships' = relationships \o findTemporalRelationships(sampledPapers, keep)
    /\ pc' = "citation"
    /\ UNCHANGED <<papers, sampledPapers, venueKeep, result>>
    /\ UNCHANGED routeVars

\* line 51
Citation ==
    /\ pc = "citation"
    /\ relationships' = relationships \o findCitationRelationships(sampledPapers)
    /\ pc' = "rank"
    /\ UNCHANGED <<papers, sampledPapers, venueKeep, temporalKeep, result>>
    /\ UNCHANGED routeVars

\* lines 54-58
Return ==
    /\ pc = "rank"
    /\ result' = topRelationships(relationships)
    /\ pc' = "done"
    /\ UNCHANGED <<papers, sampledPapers, relationships, venueKeep, temporalKeep>>
    /\ UNCHANGED routeVars

Next == Sample \/ Author \/ Venue \/ Content \/ Temporal \/ Citation \/ Return

Spec == Init /\ [][Next]_allVars

\* analyzeRelationships on the pairs of papers of the catalogue and on the dense
\* inputs, whose candidates exceed the budget
PairInputs ==
    {ps \in SmallInputs : Len(ps) = 2} \cup {DenseInput(DenseN, r) : r \in {5, DenseN - 1}}

InitPairs ==
    /\ papers \in PairInputs
    /\ pc = "sample"
    /\ sampledPapers = <<>>
    /\ relationships = <<>>
    /\ venueKeep = {}
    /\ temporalKeep = {}
    /\ result = <<>>
    /\ RouteInit

SpecPairs == InitPairs /\ [][Next]_allVars

\* analyzeRelationships on the pairs of papers of the catalogue and on the inputs with
\* separators in the ids, with an author outside the sample and with many years
CornerInputs ==
    {ps \in SmallInputs : Len(ps) = 2}
      \cup {HyphenInput, HyphenCitingInput, AuthoredInput(BigN), YearsInput(BigN)}

InitCorner ==
    /\ papers \in CornerInputs
    /\ pc = "sample"
    /\ sampledPapers = <<>>
    /\ relationships = <<>>
    /\ venueKeep = {}
    /\ temporalKeep = {}
    /\ result = <<>>
    /\ RouteInit

SpecCorner == InitCorner /\ [][Next]_allVars

-----------------------------------------------------------------------------
(* routes/research.ts: the requests in flight *)

\* the requests that have been answered, at most a graph TTL ago
responded ==
    {q \in 1..MaxRequests :
        /\ requests[q].st = "done"
        /\ now - requests[q].respondedAt <= graphTtl}
\* requests arrive one after the other
arrives(r) ==
    /\ requests[r].st = "idle"
    /\ IF r = 1 THEN TRUE ELSE requests[r - 1].st # "idle"

\* lines 1021-1026
Reject(r) ==
    /\ arrives(r)
    /\ \E body \in RouteBodies :
          /\ invalidBody(body)
          /\ requests' = [requests EXCEPT ![r] =
                Request("done", body, "", <<>>, responded, graphCache, 400, NoData, now)]
    /\ UNCHANGED <<graphCache, now, ticks, storeWrite>>
    /\ UNCHANGED vars

\* lines 1027-1035, graphCache.get returning the stored graph
Hit(r) ==
    /\ arrives(r)
    /\ \E body \in RouteBodies :
          LET cacheKey == cacheKeyOf(body.topic, body.papers)
          IN  /\ ~invalidBody(body)
              /\ cacheGetHits(graphCache, cacheKey, now)
              /\ requests' = [requests EXCEPT ![r] =
                    Request("done", body, cacheKey, <<>>, responded, graphCache, 200,
                            cachedResponseOf(cacheItem(graphCache, cacheKey).data), now)]
    /\ graphCache' = graphCache
    /\ UNCHANGED <<now, ticks, storeWrite>>
    /\ UNCHANGED vars

\* lines 1027-1043, graphCache.get returning null: up to the await of the write
Miss(r) ==
    /\ arrives(r)
    /\ \E body \in RouteBodies :
          LET cacheKey == cacheKeyOf(body.topic, body.papers)
              limitedPapers == Slice(body.papers, maxGraphPapers)
              sampled == stratifiedSample(limitedPapers, sampleSizeOf(limitedPapers))
          IN  /\ ~invalidBody(body)
              /\ ~analysisThrows(body)
              /\ ~cacheGetHits(graphCache, cacheKey, now)
              /\ graphCache' = cacheAfterGet(graphCache, cacheKey, now)
              /\ \E vKeep \in DrawChoices(Len(venueCandidates(sampled, limitedPapers))),
                    tKeep \in DrawChoices(Len(temporalCandidates(sampled))) :
                    requests' = [requests EXCEPT ![r] =
                        Request("awaiting", body, cacheKey,
                                analyzeRelationships(limitedPapers, vKeep, tKeep),
                                responded, graphCache, 0, NoData, 0)]
    /\ UNCHANGED <<now, ticks, storeWrite>>
    /\ UNCHANGED vars

\* lines 1027-1040 and 1072-1079, graphCache.get returning null and
\* analyzeRelationships throwing: the catch answers with status 500
Fail(r) ==
    /\ arrives(r)
    /\ \E body \in RouteBodies :
          LET cacheKey == cacheKeyOf(body.topic, body.papers)
          IN  /\ ~invalidBody(body)
              /\ analysisThrows(body)
              /\ ~cacheGetHits(graphCache, cacheKey, now)
              /\ graphCache' = cacheAfterGet(graphCache, cacheKey, now)
              /\ requests' = [requests EXCEPT ![r] =
                    Request("done", body, cacheKey, <<>>, responded, graphCache, 500,
                            NoData, now)]
    /\ UNCHANGED <<now, ticks, storeWrite>>
    /\ UNCHANGED vars

\* lines 1047-1070: the handler after the await
Resume(r) ==
    /\ requests[r].st = "awaiting"
    /\ \E lucky \in DrawSubsets(luckyPairs(Slice(requests[r].body.papers, maxGraphPapers))) :
          LET responseData == responseDataOf(requests[r].body, requests[r].rels, lucky, now)
          IN  /\ graphCache' = cacheSet(graphCache, requests[r].key, responseData,
                                        graphTtlMinutes, now)
              /\ requests' = [requests EXCEPT ![r].st = "done", ![r].status = 200,
                                              ![r].data = responseData,
                                              ![r].respondedAt = now]

\* lines 1043-1044: storeResearchGraph (the write to the external Graph Store)
\* resolves, the .then logs
StoreResolved(r) ==
    /\ Resume(r)
    /\ storeWrite' = "resolved"
    /\ UNCHANGED <<now, ticks>>
    /\ UNCHANGED vars

\* The handler without the .catch of line 1045: the rejection reaches the catch of
\* line 1072, which answers 500.
StoreRejectedPropagates(r) ==
    /\ requests[r].st = "awaiting"
    /\ requests' = [requests EXCEPT ![r].st = "done", ![r].status = 500,
                                    ![r].respondedAt = now]
    /\ storeWrite' = "rejected"
    /\ UNCHANGED <<graphCache, now, ticks>>
    /\ UNCHANGED vars

\* lines 1043-1045: storeResearchGraph rejects, the .catch logs
StoreRejected(r) ==
    /\ Resume(r)
    /\ storeWrite' = "rejected"
    /\ UNCHANGED <<now, ticks>>
    /\ UNCHANGED vars

\* GET /cache-stats: graphCache.getStats() runs cleanup
CacheStats ==
    /\ graphCache' = cleanup(graphCache, now)
    /\ UNCHANGED <<now, ticks, requests, storeWrite>>
    /\ UNCHANGED vars

\* time passes; the clock starts with the first request
Tick ==
    /\ ticks < MaxTicks
    /\ requests[1].st # "idle"
    /\ \E d \in TickSteps : now' = now + d
    /\ ticks' = ticks + 1
    /\ UNCHANGED <<graphCache, requests, storeWrite>>
    /\ UNCHANGED vars

RouteIdle ==
    /\ papers = <<>>
    /\ pc = "idle"
    /\ sampledPapers = <<>>
    /\ relationships = <<>>
    /\ venueKeep = {}
    /\ temporalKeep = {}
    /\ result = <<>>

InitRoute == RouteIdle /\ RouteInit

NextRoute ==
    \/ \E r \in 1..MaxRequests : Reject(r)
    \/ \E r \in 1..MaxRequests : Hit(r)
    \/ \E r \in 1..MaxRequests : Miss(r)
    \/ \E r \in 1..MaxRequests : Fail(r)
    \/ \E r \in 1..MaxRequests : StoreResolved(r)
    \/ \E r \in 1..MaxRequests : StoreRejected(r)
    \/ CacheStats
    \/ Tick

SpecRoute == InitRoute /\ [][NextRoute]_allVars

-----------------------------------------------------------------------------
(* One build of the handler on an empty cache, analyzeRelationships taken step by
   step: the handler of request 1 has passed the validation and the cache lookup
   (lines 1019-1039) and calls analyzeRelationships at line 1040. *)

\* The paper lists of the builds: the inputs of the analysis that pass the validation,
\* up to the dense ones
BuildInputs == {ps \in Inputs : Len(ps) > 0 /\ Len(ps) <= DenseN}

InitBuild ==
    /\ papers \in BuildInputs
    /\ pc = "sample"
    /\ sampledPapers = <<>>
    /\ relationships = <<>>
    /\ venueKeep = {}
    /\ temporalKeep = {}
    /\ result = <<>>
    /\ graphCache = <<>>
    /\ now = 0
    /\ ticks = 0
    /\ storeWrite = "none"
    /\ requests = [r \in 1..MaxRequests |->
          IF r = 1
          THEN Request("analyzing", Body("array", papers, ""),
                       cacheKeyOf("", papers), <<>>, {}, <<>>, 0, NoData, 0)
          ELSE Request("idle", NoBody, "", <<>>, {}, <<>>, 0, NoData, 0)]

\* lines 1040-1043: analyzeRelationships has returned, storeResearchGraph is awaited
Dispatch ==
    /\ pc = "done"
    /\ requests[1].st = "analyzing"
    /\ requests' = [requests EXCEPT ![1].st = "awaiting", ![1].rels = result]
    /\ UNCHANGED <<graphCache, now, ticks, storeWrite>>
    /\ UNCHANGED vars

NextBuild ==
    \/ Sample \/ Author \/ Venue \/ Content \/ Temporal \/ Citation \/ Return
    \/ Dispatch
    \/ StoreResolved(1)
    \/ StoreRejected(1)

SpecBuild == InitBuild /\ [][NextBuild]_allVars

-----------------------------------------------------------------------------
(* The InstantCache under inserts of new keys, from caches filled up to the
   neighbourhood of maxSize. *)

MaxInserts == 3

\* A cache of n entries in insertion order, the first old of them set at time 0,
\* the others at time 1
filledCache(n, old) ==
    Tuple([i \in 1..n |->
        CacheItem("graph_" \o ToString(i), NoData, IF i <= old THEN 0 ELSE 1, graphTtl)])

FilledCaches ==
    { filledCache(n, old) : n \in {maxSize - 2, maxSize - 1, maxSize}, old \in 0..2 }

NewKeys == {"graph_new" \o ToString(i) : i \in 1..MaxInserts}

InitCache ==
    /\ RouteIdle
    /\ graphCache \in FilledCaches
    /\ now = 1
    /\ ticks = 0
    /\ requests = [r \in 1..MaxRequests |-> Request("idle", NoBody, "", <<>>, {}, <<>>, 0, NoData, 0)]
    /\ storeWrite = "none"

\* graphCache.set(key, data, 60) with a key the cache does not hold
CacheInsert(key) ==
    /\ ~cacheHas(graphCache, key)
    /\ graphCache' = cacheSet(graphCache, key, NoData, graphTtlMinutes, now)
    /\ UNCHANGED <<now, ticks, requests, storeWrite>>
    /\ UNCHANGED vars

\* Date.now() advances by the TTL of a graph: the entries set at time 0 expire
CacheClock ==
    /\ ticks < MaxTicks
    /\ now' = now + graphTtl
    /\ ticks' = ticks + 1
    /\ UNCHANGED <<graphCache, requests, storeWrite>>
    /\ UNCHANGED vars

NextCache ==
    \/ \E key \in NewKeys : CacheInsert(key)
    \/ CacheClock

SpecCache == InitCache /\ [][NextCache]_allVars

-----------------------------------------------------------------------------
(* Claims about analyzeRelationships *)

Done == pc = "done"

IsType(rel, type) == rel.relationshipType = type
SamePair(a, b) ==
    \/ a.sourceId = b.sourceId /\ a.targetId = b.targetId
    \/ a.sourceId = b.targetId /\ a.targetId = b.sourceId
Between(rel, x, y) ==
    \/ rel.sourceId = x /\ rel.targetId = y
    \/ rel.sourceId = y /\ rel.targetId = x
CountType(rels, type) == Cardinality({i \in 1..Len(rels) : IsType(rels[i], type)})
SampledIds == {sampledPapers[i].id : i \in 1..Len(sampledPapers)}
PaperOf(id) == papers[CHOOSE i \in 1..Len(papers) : papers[i].id = id]
Elems(s) == {s[i] : i \in 1..Len(s)}
Truncated == Len(deduplicateRelationships(relationships)) > maxRelationships

\* C1: analyzeRelationships returns at most 200 edges, for every input.
C1_EdgeBudget == Done => Len(result) <= 200

\* a run whose deduplicated candidates exceed the budget
C1_Witness == Done /\ Len(relationships) > 200 /\ Truncated /\ Len(result) = 200

\* C2: no two returned edges have the same relationshipType and the same unordered
\* pair {sourceId, targetId}.
C2_NoDuplicatePairType ==
    Done => \A i, j \in 1..Len(result) :
                i < j => ~(result[i].relationshipType = result[j].relationshipType
                           /\ SamePair(result[i], result[j]))

\* a run whose candidates hold an edge and its reverse of the same type
C2_Witness ==
    /\ Done
    /\ Len(result) > 0
    /\ \E i, j \in 1..Len(relationships) :
          /\ relationships[i].relationshipType = relationships[j].relationshipType
          /\ relationships[i].sourceId = relationships[j].targetId
          /\ relationships[i].targetId = relationships[j].sourceId
          /\ relationships[i].sourceId # relationships[i].targetId

\* C3: the sampled subset has at most min(223, N) papers, 223 = floor(sqrt(50000)).
C3_SampleBound == pc # "sample" => Len(sampledPapers) <= Min(223, Len(papers))

\* more than 223 papers in two year buckets whose quotas add up to more than 223
C3_Witness ==
    /\ pc = "author"
    /\ Len(papers) > 223
    /\ Len(stratifiedSampleAll(papers, 223)) > 223
    /\ Len(sampledPapers) = 223

\* C4: every returned edge has 0 <= strength <= 1.
C4_StrengthRange ==
    Done => \A i \in 1..Len(result) :
                DblLeq(Dbl(0, 0), result[i].strength) /\ DblLeq(result[i].strength, Dbl(10, 0))

\* a run returning an author edge and a content edge whose strengths were capped
C4_Witness ==
    /\ Done
    /\ \E i \in 1..Len(result) :
          /\ IsType(result[i], "author")
          /\ result[i].strength = Dbl(9, 0)
          /\ Len(sharedAuthorsOf(PaperOf(result[i].sourceId), PaperOf(result[i].targetId))) > 3
    /\ \E i \in 1..Len(result) :
          /\ IsType(result[i], "content")
          /\ result[i].strength = Dbl(8, 0)
          /\ countOf(contentHits(PaperOf(result[i].sourceId), papers), result[i].targetId) > 8

\* C5 as stated: a citation edge S -> T is returned only when T's id is in S's own
\* references or citations and S and T are sampled.
C5_Original ==
    Done => \A i \in 1..Len(result) :
                IsType(result[i], "citation") =>
                    /\ result[i].sourceId \in SampledIds
                    /\ result[i].targetId \in SampledIds
                    /\ result[i].targetId \in
                           Elems(PaperOf(result[i].sourceId).references)
                             \cup Elems(PaperOf(result[i].sourceId).citations)

\* C5 amended: a citation edge S -> T is returned only when T's id is in S's
\* references or S's id is in T's citations, and S and T are sampled.
C5_CitationOnlyWhenListed ==
    Done => \A i \in 1..Len(result) :
                IsType(result[i], "citation") =>
                    /\ result[i].sourceId \in SampledIds
                    /\ result[i].targetId \in SampledIds
                    /\ \/ result[i].targetId \in Elems(PaperOf(result[i].sourceId).references)
                       \/ result[i].sourceId \in Elems(PaperOf(result[i].targetId).citations)

\* a returned citation edge that comes from the target's citations list only, in a
\* run where a paper also lists an id that is not sampled
C5_Witness ==
    /\ Done
    /\ \E i \in 1..Len(result) :
          /\ IsType(result[i], "citation")
          /\ result[i].targetId \notin Elems(PaperOf(result[i].sourceId).references)
          /\ result[i].sourceId \in Elems(PaperOf(result[i].targetId).citations)
    /\ \E i \in 1..Len(sampledPapers) :
          Elems(sampledPapers[i].references) \ SampledIds # {}

\* C6: the number of citation edges returned for an input is the same for every
\* outcome of the venue and temporal draws (here: the same as with no draw passing),
\* also when the budget truncates the ranked list.
C6_CitationCountIndependent ==
    Done => CountType(result, "citation")
              = CountType(analyzeRelationships(papers, {}, {}), "citation")

\* a truncated run with citation edges in which venue and temporal draws passed
C6_Witness ==
    /\ Done
    /\ venueKeep # {}
    /\ temporalKeep # {}
    /\ CountType(result, "citation") > 0
    /\ CountType(relationships, "venue") > 0
    /\ Truncated

\* j is an answered request with the body of the answered request i, received
\* after i was answered and at most the graph TTL later
Repeats(i, j) ==
    /\ requests[i].st = "done"
    /\ requests[j].st = "done"
    /\ requests[j].body = requests[i].body
    /\ i \in requests[j].after

\* C7 as stated: two build-knowledge-graph calls with identical papers and topic,
\* the second received after the first was answered and within the cache TTL of
\* it, are answered with identical nodes and edges, whatever else is inserted into
\* the cache in between.
C7_Original ==
    \A i, j \in 1..MaxRequests :
        Repeats(i, j) =>
            /\ requests[j].data.graphNodes = requests[i].data.graphNodes
            /\ requests[j].data.graphEdges = requests[i].data.graphEdges

CitationEdgesBetween(x, y) ==
    {k \in 1..Len(result) : IsType(result[k], "citation") /\ Between(result[k], x, y)}

\* C8 as stated: for all sampled X, Y with Y's id in X.references the result holds
\* exactly one citation edge between X and Y, directed X -> Y, of strength 0.9.
C8_Original ==
    Done => \A i, j \in 1..Len(sampledPapers) :
                LET X == sampledPapers[i]
                    Y == sampledPapers[j]
                IN  Y.id \in Elems(X.references) =>
                        /\ Cardinality(CitationEdgesBetween(X.id, Y.id)) = 1
                        /\ \A k \in CitationEdgesBetween(X.id, Y.id) :
                              /\ result[k].sourceId = X.id
                              /\ result[k].targetId = Y.id
                              /\ result[k].strength = Dbl(9, 0)

SharesAuthor(X, Y) ==
    \E a \in Elems(X.authors), b \in Elems(Y.authors) : toLowerCase(a) = toLowerCase(b)

AuthorEdgesBetween(x, y) ==
    {k \in 1..Len(result) : IsType(result[k], "author") /\ Between(result[k], x, y)}

\* C9: when the result is within the edge budget, for every unordered pair of sampled
\* papers that share an author string (case-insensitive exact match) the result holds
\* exactly one author edge for the pair, of strength min(0.9, 0.3 x the number of
\* shared authors) (the number counted on either paper's author list).
C9_Original ==
    (Done /\ ~Truncated) =>
        \A i, j \in 1..Len(sampledPapers) :
            LET X == sampledPapers[i]
                Y == sampledPapers[j]
            IN  (i < j /\ SharesAuthor(X, Y)) =>
                    /\ Cardinality(AuthorEdgesBetween(X.id, Y.id)) = 1
                    /\ \A k \in AuthorEdgesBetween(X.id, Y.id) :
                          result[k].strength \in
                              {authorStrength(Len(sharedAuthorsOf(X, Y))),
                               authorStrength(Len(sharedAuthorsOf(Y, X)))}

\* the trigger of an author, venue or temporal edge, on the two papers it joins
Trigger(rel) ==
    LET S == PaperOf(rel.sourceId)
        T == PaperOf(rel.targetId)
    IN  CASE IsType(rel, "author") -> SharesAuthor(S, T)
          [] IsType(rel, "venue") ->
                /\ Truthy(S.venue) /\ Truthy(T.venue)
                /\ trim(toLowerCase(S.venue)) = trim(toLowerCase(T.venue))
          [] IsType(rel, "temporal") ->
                /\ S.year # 0 /\ T.year # 0
                /\ S.year - T.year <= 1 /\ T.year - S.year <= 1
          [] OTHER -> TRUE

\* a paper that shares no author and no citation link with any other paper (nor
\* with itself) and has fewer than 3 keywords
Isolated(i) ==
    /\ Len(extractKeywords(papers[i])) < 3
    /\ papers[i].id \notin Elems(papers[i].references) \cup Elems(papers[i].citations)
    /\ \A j \in 1..Len(papers) :
          j # i =>
              /\ ~SharesAuthor(papers[i], papers[j])
              /\ papers[i].id \notin Elems(papers[j].references) \cup Elems(papers[j].citations)
              /\ papers[j].id \notin Elems(papers[i].references) \cup Elems(papers[i].citations)

\* C10: every returned author, venue or temporal edge joins two papers that satisfy
\* the type's trigger, and when no venue or temporal draw passes, a paper that shares
\* no author and no citation link with any other and has fewer than 3 keywords is an
\* endpoint of no returned edge.
C10_Original ==
    Done =>
        /\ \A k \in 1..Len(result) : Trigger(result[k])
        /\ (venueKeep = {} /\ temporalKeep = {}) =>
              \A i \in 1..Len(papers) :
                  Isolated(i) =>
                      \A k \in 1..Len(result) :
                          result[k].sourceId # papers[i].id /\ result[k].targetId # papers[i].id

-----------------------------------------------------------------------------
(* The artifact of build-knowledge-graph *)

Answered(r) == requests[r].st = "done"

Built(r) == Answered(r) /\ requests[r].status = 200 /\ ~requests[r].data.cached

\* C11: the graphEdges of the artifact a build returns hold at most maxRelationships
\* (200) edges, whatever the number of papers.
C11_Original ==
    \A r \in 1..MaxRequests :
        Built(r) => Len(requests[r].data.graphEdges) <= maxRelationships

\* C12: build-knowledge-graph is deterministic: two requests with identical papers and
\* topic that found the same cache state are answered with the same edges.
C12_Original ==
    \A r, q \in 1..MaxRequests :
        (/\ Answered(r) /\ requests[r].status = 200
         /\ Answered(q) /\ requests[q].status = 200
         /\ requests[r].body = requests[q].body
         /\ requests[r].cacheSeen = requests[q].cacheSeen)
            => requests[r].data.graphEdges = requests[q].data.graphEdges

\* C13: a request with an empty paper list does not fail: it is answered with a
\* successful artifact that has no edges.
C13_Original ==
    \A r \in 1..MaxRequests :
        (Answered(r) /\ requests[r].body.kind = "array" /\ Len(requests[r].body.papers) = 0)
            => (requests[r].status = 200 /\ requests[r].data.graphEdges = <<>>)

\* The papers argument is missing, not an array, empty, or holds a record without
\* the authors list
EmptyOrMalformed(body) == body.kind # "array" \/ Len(body.papers) = 0

\* C14: a request with an empty or malformed papers argument is answered with an error
\* in the step that receives it, without a cache lookup (no cache key is computed)
\* and with the cache unchanged.
C14_Original ==
    [][\A r \in 1..MaxRequests :
          (requests[r].st = "idle" /\ requests'[r].st # "idle"
             /\ EmptyOrMalformed(requests'[r].body))
            => (/\ requests'[r].st = "done"
                /\ requests'[r].status >= 400
                /\ requests'[r].key = ""
                /\ graphCache' = graphCache)]_allVars

\* C15: when an index or a detector throws during a build (here buildAuthorIndex, on
\* a record without authors), the request is still answered with a successful result.
C15_Original ==
    \A r \in 1..MaxRequests :
        (Answered(r) /\ analysisThrows(requests[r].body) /\ ~requests[r].data.cached)
            => requests[r].status = 200

\* The artifacts the handler can build for a request: one for each outcome of the
\* draws of generateGraphConnections
ArtifactsOf(r) ==
    { responseDataOf(requests[r].body, requests[r].rels, lucky, requests[r].respondedAt) :
        lucky \in DrawSubsets(luckyPairs(Slice(requests[r].body.papers, maxGraphPapers))) }

\* C16: when storeResearchGraph fails, the request is still answered with status 200
\* and with an artifact (nodes and edges) it can also return when the write succeeds,
\* and that artifact is in the cache under the request's key.
C16_StoreFailureHarmless ==
    (Answered(1) /\ storeWrite = "rejected")
        => (/\ requests[1].status = 200
            /\ requests[1].data \in ArtifactsOf(1)
            /\ cacheHas(graphCache, requests[1].key)
            /\ cacheItem(graphCache, requests[1].key).data = requests[1].data)

C16_Witness ==
    /\ Answered(1)
    /\ storeWrite = "rejected"
    /\ Len(requests[1].data.graphEdges) > 0

\* The storeResearchGraph of request r has been called and has not settled
WritePending(r) == requests[r].st = "awaiting"

\* The response of request r has been sent
ResponseSent(r) == requests[r].status # 0

\* C17: the response does not wait for the Graph Store write: whenever the write of a
\* request is pending, its response has been sent.
C17_Original ==
    \A r \in 1..MaxRequests : WritePending(r) => ResponseSent(r)

-----------------------------------------------------------------------------
(* The Graph Build Cache *)

\* Request r is received in this step
Received(r) == requests[r].st = "idle" /\ requests'[r].st # "idle"

\* The request received in this step passes the validation and finds an unexpired
\* entry under its fingerprint
FindsEntry(r) ==
    /\ Received(r)
    /\ ~invalidBody(requests'[r].body)
    /\ cacheGetHits(graphCache, cacheKeyOf(requests'[r].body.topic, requests'[r].body.papers), now)

StoredFor(r) ==
    cacheItem(graphCache, cacheKeyOf(requests'[r].body.topic, requests'[r].body.papers)).data

\* C18: a request that finds an unexpired entry under its fingerprint is answered at
\* once with the stored nodes and edges and cached = TRUE, without analysis (no
\* relationships, the analysis variables untouched), without a Graph Store write and
\* with the cache unchanged; a request answered after a build has cached = FALSE.
C18_HitFrame ==
    [][\A r \in 1..MaxRequests :
          /\ FindsEntry(r) =>
                /\ requests'[r].st = "done"
                /\ requests'[r].status = 200
                /\ requests'[r].data.cached
                /\ requests'[r].data.graphNodes = StoredFor(r).graphNodes
                /\ requests'[r].data.graphEdges = StoredFor(r).graphEdges
                /\ requests'[r].rels = <<>>
                /\ graphCache' = graphCache
                /\ storeWrite' = storeWrite
                /\ vars' = vars
          /\ (WritePending(r) /\ Answered(r)') => ~requests'[r].data.cached
          /\ (Received(r) /\ ~invalidBody(requests'[r].body) /\ ~FindsEntry(r))
                => (WritePending(r)' \/ requests'[r].status = 500)]_allVars

C18_Witness ==
    \E r, q \in 1..MaxRequests :
        /\ Answered(r) /\ requests[r].data.cached /\ Len(requests[r].data.graphEdges) > 0
        /\ Built(q) /\ requests[q].key = requests[r].key

\* The fingerprint of the request received in this step
KeyFor(r) == cacheKeyOf(requests'[r].body.topic, requests'[r].body.papers)

\* The request received in this step passes the validation and finds under its
\* fingerprint an entry stored more than the TTL of a graph earlier
FindsExpired(r) ==
    /\ Received(r)
    /\ ~invalidBody(requests'[r].body)
    /\ cacheHas(graphCache, KeyFor(r))
    /\ now - cacheItem(graphCache, KeyFor(r)).timestamp > graphTtl

\* Every artifact returned from the cache is the artifact of a build that was
\* answered, and stored, at most the TTL of a graph before
ReturnedWithinTtl ==
    \A r \in 1..MaxRequests :
        (Answered(r) /\ requests[r].data.cached) =>
            \E q \in 1..MaxRequests :
                /\ Built(q)
                /\ requests[q].key = requests[r].key
                /\ cachedResponseOf(requests[q].data) = requests[r].data
                /\ requests[q].respondedAt <= requests[r].respondedAt
                /\ requests[r].respondedAt - requests[q].respondedAt <= graphTtl

\* C19: an artifact is never returned from the cache more than the TTL of a graph
\* (60 minutes) after it was stored; a hit leaves the entry's timestamp as the insert
\* set it; a lookup that finds the entry expired removes it and goes on to a fresh
\* build (or to the failure of its analysis).
C19_TtlFromInsert ==
    /\ []ReturnedWithinTtl
    /\ [][\A r \in 1..MaxRequests :
            /\ FindsEntry(r) =>
                  /\ cacheHas(graphCache', KeyFor(r))
                  /\ cacheItem(graphCache', KeyFor(r)).timestamp
                        = cacheItem(graphCache, KeyFor(r)).timestamp
                  /\ now - cacheItem(graphCache, KeyFor(r)).timestamp <= graphTtl
            /\ FindsExpired(r) =>
                  /\ ~cacheHas(graphCache', KeyFor(r))
                  /\ ~requests'[r].data.cached
                  /\ WritePending(r)' \/ requests'[r].status = 500]_allVars

\* A request answered from the cache exactly at the end of the TTL of a build, and
\* a request that found the entry of a build expired and built again
C19_Witness ==
    \E r, q, s \in 1..MaxRequests :
        /\ Built(q) /\ Built(s) /\ q # s /\ requests[s].key = requests[q].key
        /\ requests[s].respondedAt - requests[q].respondedAt > graphTtl
        /\ Len(requests[s].cacheSeen) = 1
        /\ Answered(r) /\ requests[r].data.cached

\* C20: the cache holds at most maxSize entries (in every state, so after every
\* InstantCache.set).
C20_Original == Len(graphCache) <= maxSize

-----------------------------------------------------------------------------
(* The fingerprint *)

IdsOf(ps) == {ps[i].id : i \in 1..Len(ps)}

\* C21: the key of a request is the key of another exactly when the two have the same
\* topic and the same set of paper ids, and an artifact returned from the cache was
\* built for the topic and the set of paper ids of the request.
C21_Original ==
    /\ \A r, q \in 1..MaxRequests :
          (Answered(r) /\ Answered(q) /\ requests[r].status = 200 /\ requests[q].status = 200)
            => ((requests[r].key = requests[q].key)
                  <=> (/\ currentTopicOf(requests[r].body.topic)
                            = currentTopicOf(requests[q].body.topic)
                       /\ IdsOf(requests[r].body.papers) = IdsOf(requests[q].body.papers)))
    /\ \A r \in 1..MaxRequests :
          (Answered(r) /\ requests[r].data.cached)
            => (/\ requests[r].data.topic = currentTopicOf(requests[r].body.topic)
                /\ IdsOf(requests[r].data.graphNodes) = IdsOf(requests[r].body.papers))

\* C22: requests with the same fingerprint that overlap in time share one computation:
\* no two of them are each waiting for a Graph Store write of their own, and two of
\* them that were built overlapping have the same edges.
C22_Original ==
    \A r, q \in 1..MaxRequests :
        (r # q /\ requests[r].key = requests[q].key)
            => (/\ ~(WritePending(r) /\ WritePending(q))
                /\ (Built(r) /\ Built(q) /\ requests[r].cacheSeen = requests[q].cacheSeen)
                      => requests[r].data.graphEdges = requests[q].data.graphEdges)

-----------------------------------------------------------------------------
(* Deduplication and ranking *)

\* The candidates that are the first, in candidate order, with their unordered pair
\* of ids and their type
FirstOfKey(rels) ==
    ConcatAll([i \in 1..Len(rels) |->
        IF \E j \in 1..(i - 1) :
              SamePair(rels[j], rels[i])
                /\ rels[j].relationshipType = rels[i].relationshipType
        THEN <<>> ELSE <<rels[i]>>])

\* C23: deduplicateRelationships returns exactly the candidates that are the first
\* occurrence of their key (unordered pair of ids, type), each as it was pushed.
C23_Original ==
    pc \in {"rank", "done"} => deduplicateRelationships(relationships) = FirstOfKey(relationships)

Score(rel) == DblKey(scoreOf(rel))

\* the deduplicated edges the budget dropped
DroppedByBudget == Elems(deduplicateRelationships(relationships)) \ Elems(result)

\* C24: the returned list is in non-increasing order of score (type weight times
\* strength), and no deduplicated edge dropped by the budget has a strictly higher
\* score than a returned edge.
C24_RankedByScore ==
    Done =>
        /\ \A k \in 1..(Len(result) - 1) : Score(result[k]) >= Score(result[k + 1])
        /\ \A e \in DroppedByBudget :
              \A k \in 1..Len(result) : Score(e) <= Score(result[k])

C24_Witness ==
    /\ Done
    /\ DroppedByBudget # {}
    /\ \E k \in 1..(Len(result) - 1) : Score(result[k]) > Score(result[k + 1])
    /\ \E i, j \in 1..Len(relationships) :
          i < j /\ Score(relationships[i]) < Score(relationships[j])

\* C25: the returned list follows the static type priority: no edge is preceded by an
\* edge of a type of lower weight (citation 5, author 4, content 3, venue 2, temporal 1).
C25_Original ==
    Done =>
        \A i, j \in 1..Len(result) :
            i < j => typeWeight(result[i].relationshipType)
                        >= typeWeight(result[j].relationshipType)

-----------------------------------------------------------------------------
(* The sampled subset and the indexes *)

\* C26: every returned edge, of any type, has its sourceId and its targetId among the
\* ids of the sampled papers.
C26_Original ==
    Done =>
        \A k \in 1..Len(result) :
            result[k].sourceId \in SampledIds /\ result[k].targetId \in SampledIds

-----------------------------------------------------------------------------
(* The content detector *)

\* the distinct tokens extracted from both papers
CommonKeywords(x, y) ==
    Elems(extractKeywords(PaperOf(x))) \cap Elems(extractKeywords(PaperOf(y)))

\* C27: a returned content edge joins two papers whose keyword sets have at least 3
\* distinct tokens in common, and its strength is min(0.8, 0.1 x that number).
C27_Original ==
    Done =>
        \A k \in 1..Len(result) :
            IsType(result[k], "content") =>
                LET n == Cardinality(CommonKeywords(result[k].sourceId, result[k].targetId))
                IN  n >= minOverlap /\ result[k].strength = contentStrength(n)

-----------------------------------------------------------------------------
(* The order of the detectors *)

\* what each of the five detector calls of lines 47-51 returned, for the draws taken
DetectorOutputs ==
    << findAuthorRelationships(sampledPapers, papers),
       findVenueRelationships(sampledPapers, papers, venueKeep),
       findContentRelationships(sampledPapers, papers),
       findTemporalRelationships(sampledPapers, temporalKeep),
       findCitationRelationships(sampledPapers) >>

DetectorOrders ==
    {o \in [1..5 -> 1..5] : \A i, j \in 1..5 : i # j => o[i] # o[j]}

\* the candidate lists the orders of the detectors give (two orders that differ only
\* in the place of an empty output give the same list)
CandidateLists(outputs) ==
    {ConcatAll([k \in 1..5 |-> outputs[o[k]]]) : o \in DetectorOrders}

\* C28: the set of returned edges is the same for every order in which the outputs of
\* the five detectors are concatenated, the draws being those taken, also when the
\* budget truncates the ranked list.
C28_OrderInsensitive ==
    Done =>
        \A candidates \in CandidateLists(DetectorOutputs) :
            Elems(topRelationships(candidates)) = Elems(result)

C28_Witness ==
    /\ Done
    /\ Truncated
    /\ Cardinality({k \in 1..5 : DetectorOutputs[k] # <<>>}) >= 4

-----------------------------------------------------------------------------
(* The sampler *)

YearBuckets == {yearOf(papers[i]) : i \in 1..Len(papers)}

\* C29: when the target sample size is at least the number of year buckets of the
\* input, every year bucket has a paper in the sample.
C29_Original ==
    (pc # "sample" /\ sampleSizeOf(papers) >= Cardinality(YearBuckets))
        => \A y \in YearBuckets :
              \E i \in 1..Len(sampledPapers) : yearOf(sampledPapers[i]) = y

-----------------------------------------------------------------------------
(* Self-loops *)

\* C30: no returned edge, of any type, has its sourceId equal to its targetId.
C30_Original ==
    Done => \A k \in 1..Len(result) : result[k].sourceId # result[k].targetId

====
